---------------------------- MODULE Spec2Model ----------------------------
(***************************************************************************)
(* Music Analyzer (music_analyzer.py): a Tk window with two buttons.       *)
(* "Load Music File" runs load_file, which asks for a path and hands it to *)
(* analyze_file; "Exit" runs close_app.  analyze_file decodes the file,    *)
(* draws the panels on one figure, packs the figure's canvas into the      *)
(* window, saves the figure as <basename>.png, prints the completion       *)
(* message and closes the application.                                     *)
(*                                                                         *)
(* Three specifications:                                                   *)
(*   Spec      the window, the console, the working directory and the      *)
(*             process-wide plotting style across launches of the program; *)
(*   SpecName  the output file name computed from an input path;           *)
(*   SpecBands the three band masks over the STFT frequency bins.          *)
(***************************************************************************)
EXTENDS Integers, Sequences, FiniteSets, TLC

VARIABLES
    window,        \* root: "open" | "destroyed"
    mainloop,      \* root.mainloop(): "running" | "ended"
    children,      \* widgets packed into root, in packing order
    console,       \* lines printed by this process, in order
    files,         \* working directory: output file name -> content
    styleApplied,  \* plt.style.use('dark_background') has run in this process
    chosen,        \* the file dialog has returned a path in this process
    written,       \* names of the files the latest handler wrote to
    last,          \* the latest handler and the inputs it received
    attempts,      \* Load clicks handled by this process
    launches,      \* times the program has been started
    file_path,     \* SpecName: the path handed to analyze_file
    output_file,   \* SpecName: the name handed to plt.savefig
    sr,            \* SpecBands: sample rate
    bin,           \* SpecBands: index of an STFT frequency bin
    band           \* SpecBands: the masks that select the bin

vars == <<window, mainloop, children, console, files, styleApplied, chosen,
          written, last, attempts, launches, file_path, output_file, sr, bin,
          band>>

guiVars == <<window, mainloop, children, console, files, styleApplied, chosen,
             written, last, attempts, launches>>
nameVars == <<file_path, output_file>>
bandVars == <<sr, bin, band>>

-----------------------------------------------------------------------------
(* Bounds of the model *)

MaxAttempts == 2     \* Load clicks followed within one launch
MaxLaunches == 2     \* launches followed
MaxLen == 5          \* longest path of SpecName

-----------------------------------------------------------------------------
(* Strings are sequences of one-character strings. *)

SEP == "/"
EXTSEP == "."
PNG == <<".", "p", "n", "g">>
Chars == {SEP, EXTSEP, "a"}

\* str.rfind(c): the last position of c in p (1-based), 0 when c is not in p
rfind(p, c) ==
    IF \E i \in 1..Len(p) : p[i] = c
    THEN CHOOSE i \in 1..Len(p) : p[i] = c /\ \A j \in (i+1)..Len(p) : p[j] # c
    ELSE 0

\* os.path.basename(p): what follows the last separator
basename_keepdir(p) == p
basename(p) == SubSeq(p, rfind(p, SEP) + 1, Len(p))

\* The loop of os.path.splitext that skips the leading dots of the file name:
\* the first position in filenameIndex..dotIndex-1 that holds no dot, 0 if none
RECURSIVE SkipDots(_, _, _)
SkipDots(p, filenameIndex, dotIndex) ==
    IF filenameIndex >= dotIndex THEN 0
    ELSE IF p[filenameIndex] # EXTSEP THEN filenameIndex
    ELSE SkipDots(p, filenameIndex + 1, dotIndex)

\* os.path.splitext(p)[0]: p without its extension
splitext(p) ==
    LET sepIndex == rfind(p, SEP)
        dotIndex == rfind(p, EXTSEP)
    IN  IF dotIndex > sepIndex /\ SkipDots(p, sepIndex + 1, dotIndex) # 0
        THEN SubSeq(p, 1, dotIndex - 1)
        ELSE p

\* audio_file_name = basename(file_path); output_file = splitext(...)[0] + ".png"
OutputFile_fixedName(p) ==
    <<"m", "u", "s", "i", "c", "_", "a", "n", "a", "l", "y", "s", "i", "s", "_",
      "p", "l", "o", "t">> \o PNG
OutputFile(p) == splitext(basename(p)) \o PNG

-----------------------------------------------------------------------------
(* Band masks over the frequency bins.  librosa.fft_frequencies gives bin k *)
(* the frequency k * sr / N_FFT, for k in 0..N_FFT/2; the comparisons below *)
(* are those of the masks, multiplied through by N_FFT.                     *)

N_FFT == 2048
BASS_HI == 150
MID_HI == 2000
SampleRates == {8000, 16000, 22050, 44100}
Bins == 0..(N_FFT \div 2)

BassMask(rate, k) == k * rate > 0 /\ k * rate < BASS_HI * N_FFT
MidMask(rate, k) == k * rate >= BASS_HI * N_FFT /\ k * rate < MID_HI * N_FFT
TrebleMask_strict(rate, k) == k * rate > MID_HI * N_FFT
TrebleMask(rate, k) == k * rate >= MID_HI * N_FFT

BandMasks(rate, k) ==
    [bass |-> BassMask(rate, k), mid |-> MidMask(rate, k),
     treble |-> TrebleMask(rate, k), computed |-> TRUE]
NoBand == [bass |-> FALSE, mid |-> FALSE, treble |-> FALSE, computed |-> FALSE]


-----------------------------------------------------------------------------
(* The window, the console and the working directory *)

LOAD_BUTTON == "load_button"
EXIT_BUTTON == "exit_button"
CANVAS == "canvas"

ErrorLoading == "Error loading file"
ErrorAnalyzing == "Error analyzing file"
Complete == "Analysis complete"

\* What filedialog.askopenfilename() can return: a path, or "" on cancel
Cancelled == <<>>
DialogPaths == { <<"/", "a", ".", "w">>,
                 <<"/", "d", "/", "a", ".", "w">>,
                 <<"/", "b", ".", "w">> }

\* What librosa.load can do: raise, or return a signal
DecodeError == "raise"
Audio == {"tone", "song"}

\* Where the second try block can raise: plt.subplots (line 33), the
\* features, panels and canvas up to canvas.draw (34-128), the label fixes
\* after the canvas is packed (130-139), plt.savefig (143) before or after it
\* has opened the output file; or nowhere
Stages == {"subplots", "render", "labels", "savefig", "savefig_partial"}
NoFailure == "none"
NotRun == "-"

LoadInputs ==
    {[sel |-> Cancelled, decode |-> NotRun, fail |-> NotRun]}
    \cup {[sel |-> p, decode |-> DecodeError, fail |-> NotRun] : p \in DialogPaths}
    \cup {[sel |-> p, decode |-> a, fail |-> f] :
            p \in DialogPaths, a \in Audio, f \in Stages \cup {NoFailure}}

\* The figure as rendered: its title, the signal it plots and the colour its
\* axes' spines took from the style in force when plt.subplots created them
Figure(title, audio, spines) ==
    [title |-> title, audio |-> audio, spines |-> spines, whole |-> TRUE]
Truncated(fig) == [fig EXCEPT !.whole = FALSE]

\* plt.subplots under the rcParams in force: dark_background makes
\* axes.edgecolor white, the default style leaves it black
SpinesNow == IF styleApplied THEN "white" ELSE "black"

\* plt.style.use('dark_background') runs unless plt.subplots raised
StyleReached(failAt) == failAt # "subplots"

\* canvas.get_tk_widget().pack() runs unless an earlier line raised
CanvasPacked_afterSave(failAt) == failAt = NoFailure
CanvasPacked(failAt) == failAt \notin {"subplots", "render"}

\* plt.savefig(output_file): the file is created or replaced
savefig(fs, name, content) ==
    [x \in DOMAIN fs \cup {name} |-> IF x = name THEN content ELSE fs[x]]

\* close_app(): root.quit() ends the event loop, root.destroy() destroys the
\* window and every widget in it
close_app_quitOnly ==
    /\ mainloop' = "ended"
    /\ UNCHANGED <<window, children>>
close_app ==
    /\ mainloop' = "ended"
    /\ window' = "destroyed"
    /\ children' = <<>>

\* The first except clause of analyze_file
DecodeFailed_closes ==
    /\ console' = Append(console, ErrorLoading)
    /\ written' = {}
    /\ close_app
    /\ UNCHANGED <<files, styleApplied>>
DecodeFailed ==
    /\ console' = Append(console, ErrorLoading)
    /\ written' = {}
    /\ UNCHANGED <<window, mainloop, children, files, styleApplied>>

\* The second except clause of analyze_file; the canvas, once packed, stays
AnalysisFailed_closes(failAt) ==
    /\ console' = Append(console, ErrorAnalyzing)
    /\ close_app
AnalysisFailed_wrongLine(failAt) ==
    /\ console' = Append(console, ErrorLoading)
    /\ UNCHANGED <<window, mainloop>>
    /\ children' = IF CanvasPacked(failAt)
                   THEN Append(children, CANVAS)
                   ELSE children
AnalysisFailed(failAt) ==
    /\ console' = Append(console, ErrorAnalyzing)
    /\ UNCHANGED <<window, mainloop>>
    /\ children' = IF CanvasPacked(failAt)
                   THEN Append(children, CANVAS)
                   ELSE children

\* The end of the second try block: the completion message, then close_app()
Finished_staysOpen ==
    /\ console' = Append(console, Complete)
    /\ UNCHANGED <<window, mainloop>>
    /\ children' = Append(children, CANVAS)
Finished ==
    /\ console' = Append(console, Complete)
    /\ close_app

analyze_file(p, dec, failAt) ==
    IF dec = DecodeError
    THEN DecodeFailed
    ELSE LET fig == Figure(basename(p), dec, SpinesNow)
             out == OutputFile(p)
         IN  /\ styleApplied' = (styleApplied \/ StyleReached(failAt))
             /\ files' = CASE failAt = NoFailure -> savefig(files, out, fig)
                           [] failAt = "savefig_partial" ->
                                  savefig(files, out, Truncated(fig))
                           [] OTHER -> files
             /\ written' = IF failAt \in {NoFailure, "savefig_partial"}
                           THEN {out} ELSE {}
             /\ IF failAt = NoFailure
                THEN Finished
                ELSE AnalysisFailed(failAt)

\* A button of the window can be clicked
Clickable(b) ==
    /\ window = "open"
    /\ mainloop = "running"
    /\ \E i \in 1..Len(children) : children[i] = b

\* load_file(): the Load Music File button
load_file ==
    /\ Clickable(LOAD_BUTTON)
    /\ attempts < MaxAttempts
    /\ \E in \in LoadInputs :
         /\ last' = [op |-> "load", sel |-> in.sel, decode |-> in.decode,
                     fail |-> in.fail]
         /\ chosen' = (chosen \/ in.sel # Cancelled)
         /\ IF in.sel # Cancelled
            THEN analyze_file(in.sel, in.decode, in.fail)
            ELSE /\ written' = {}
                 /\ UNCHANGED <<window, mainloop, children, console, files,
                                styleApplied>>
    /\ attempts' = attempts + 1
    /\ UNCHANGED <<launches, nameVars, bandVars>>

\* The Exit button: command=close_app
exit_button ==
    /\ Clickable(EXIT_BUTTON)
    /\ close_app
    /\ last' = [op |-> "exit", sel |-> Cancelled, decode |-> NotRun,
                fail |-> NotRun]
    /\ written' = {}
    /\ UNCHANGED <<console, files, styleApplied, chosen, attempts, launches,
                   nameVars, bandVars>>

\* The module's top level: a fresh process builds the window and enters
\* the event loop; the working directory is what earlier launches left
Started ==
    /\ window = "open"
    /\ mainloop = "running"
    /\ children = <<LOAD_BUTTON, EXIT_BUTTON>>
    /\ console = <<>>
    /\ styleApplied = FALSE
    /\ chosen = FALSE
    /\ written = {}
    /\ attempts = 0
    /\ last = [op |-> "launch", sel |-> Cancelled, decode |-> NotRun,
               fail |-> NotRun]

launch ==
    /\ mainloop = "ended"
    /\ launches < MaxLaunches
    /\ launches' = launches + 1
    /\ window' = "open"
    /\ mainloop' = "running"
    /\ children' = <<LOAD_BUTTON, EXIT_BUTTON>>
    /\ console' = <<>>
    /\ styleApplied' = FALSE
    /\ chosen' = FALSE
    /\ written' = {}
    /\ attempts' = 0
    /\ last' = [op |-> "launch", sel |-> Cancelled, decode |-> NotRun,
                fail |-> NotRun]
    /\ UNCHANGED <<files, nameVars, bandVars>>

NameIdle == file_path = <<>> /\ output_file = <<>>
BandIdle == sr = 22050 /\ bin = 0 /\ band = NoBand

Init ==
    /\ Started
    /\ launches = 1
    /\ files = <<>>
    /\ NameIdle
    /\ BandIdle

Next == load_file \/ exit_button \/ launch

Spec == Init /\ [][Next]_vars

-----------------------------------------------------------------------------
(* SpecName: the output file name of every short path *)

Paths == UNION {[1..n -> Chars] : n \in 1..MaxLen}

InitName ==
    /\ Started
    /\ launches = 1
    /\ files = <<>>
    /\ BandIdle
    /\ file_path \in Paths
    /\ output_file = <<>>

ComputeName ==
    /\ output_file = <<>>
    /\ output_file' = OutputFile(file_path)
    /\ UNCHANGED <<guiVars, bandVars, file_path>>

SpecName == InitName /\ [][ComputeName]_vars

-----------------------------------------------------------------------------
(* SpecBands: the masks of every bin at every sample rate *)

InitBands ==
    /\ Started
    /\ launches = 1
    /\ files = <<>>
    /\ NameIdle
    /\ sr \in SampleRates
    /\ bin \in Bins
    /\ band = NoBand

ComputeBands ==
    /\ ~band.computed
    /\ band' = BandMasks(sr, bin)
    /\ UNCHANGED <<guiVars, nameVars, sr, bin>>

SpecBands == InitBands /\ [][ComputeBands]_vars

-----------------------------------------------------------------------------
(* Properties.  A step of load_file is one that counts an attempt; its     *)
(* inputs are in last'.                                                     *)

LoadStep == attempts' = attempts + 1
CancelStep == LoadStep /\ last'.sel = Cancelled
DecodeFailStep == LoadStep /\ last'.sel # Cancelled /\ last'.decode = DecodeError
AnalysisFailStep == LoadStep /\ last'.decode \in Audio /\ last'.fail \in Stages
SuccessStep == LoadStep /\ last'.decode \in Audio /\ last'.fail = NoFailure
ExitStep == mainloop = "running" /\ last'.op = "exit"

\* The output name each dialog path is expected to give, written out
ExpectedName(p) ==
    CASE p = <<"/", "a", ".", "w">> -> <<"a", ".", "p", "n", "g">>
      [] p = <<"/", "d", "/", "a", ".", "w">> -> <<"a", ".", "p", "n", "g">>
      [] p = <<"/", "b", ".", "w">> -> <<"b", ".", "p", "n", "g">>

\* Only the files in names differ between the directory before and after
OnlyWrote(names) ==
    /\ DOMAIN files' = DOMAIN files \cup names
    /\ \A f \in DOMAIN files \ names : files'[f] = files[f]

Count(seq, x) == Cardinality({i \in 1..Len(seq) : seq[i] = x})

IdleNow == window = "open" /\ mainloop = "running"
BothButtons ==
    /\ Len(children) >= 2
    /\ children[1] = LOAD_BUTTON
    /\ children[2] = EXIT_BUTTON

\* C1: an attempt whose decode and every later step succeed writes exactly
\* one file, <basename>.png, a whole figure of the decoded signal, and no
\* other file, and prints the completion message and no error line.
C1_SuccessWritesOneFile ==
    [][SuccessStep =>
          /\ written' = {ExpectedName(last'.sel)}
          /\ OnlyWrote(written')
          /\ \A f \in written' :
                /\ files'[f].whole
                /\ files'[f].audio = last'.decode
          /\ console' = Append(console, Complete)]_vars

C1_Witness ==
    /\ last.op = "load"
    /\ last.fail = NoFailure
    /\ last.sel = <<"/", "d", "/", "a", ".", "w">>
    /\ written = {<<"a", ".", "p", "n", "g">>}
    /\ DOMAIN files = {<<"a", ".", "p", "n", "g">>}
    /\ console = <<Complete>>

\* C2: an attempt whose decode raises writes no file, prints the line
\* "Error loading file" and nothing else, and leaves the window open with
\* the Load button still there to click.
C2_DecodeFailureStaysOpen ==
    [][DecodeFailStep =>
          /\ files' = files
          /\ written' = {}
          /\ console' = Append(console, ErrorLoading)
          /\ window' = "open"
          /\ mainloop' = "running"
          /\ \E i \in 1..Len(children') : children'[i] = LOAD_BUTTON]_vars

C2_Witness ==
    /\ last.op = "load"
    /\ last.decode = DecodeError
    /\ console = <<ErrorLoading, ErrorLoading>>
    /\ Clickable(LOAD_BUTTON)

\* C4: the window is destroyed only by a fully successful analysis or by
\* Exit; a cancelled dialog, a failed decode and a failed analysis each
\* leave the window open, the event loop running and both buttons present.
C4_LeavesIdleOnlyBySuccessOrExit ==
    [][/\ (window = "open" /\ window' = "destroyed") =>
              (ExitStep \/ SuccessStep)
       /\ (CancelStep \/ DecodeFailStep \/ AnalysisFailStep) =>
              /\ window' = "open"
              /\ mainloop' = "running"
              /\ BothButtons']_vars

C4_Witness ==
    /\ last.op = "load"
    /\ last.sel = Cancelled
    /\ console = <<ErrorAnalyzing>>
    /\ IdleNow
    /\ BothButtons

\* C5: an attempt whose decode succeeds and in which a later step raises
\* prints the line "Error analyzing file" and neither "Error loading file"
\* nor the completion message, and leaves the window open and the event loop
\* running.
C5_AnalysisFailureIsCaught ==
    [][AnalysisFailStep =>
          /\ console' = Append(console, ErrorAnalyzing)
          /\ window' = "open"
          /\ mainloop' = "running"]_vars

C5_Witness ==
    /\ last.op = "load"
    /\ last.fail = "savefig"
    /\ console = <<ErrorAnalyzing>>
    /\ IdleNow

\* C6: Exit clicked before any file has been chosen in this launch destroys
\* the window and ends the event loop; no file is written and the console
\* stays empty.
C6_ExitBeforeAnyFile ==
    [][(ExitStep /\ ~chosen) =>
          /\ window' = "destroyed"
          /\ mainloop' = "ended"
          /\ files' = files
          /\ written' = {}
          /\ console' = <<>>]_vars

C6_Witness ==
    /\ last.op = "exit"
    /\ ~chosen
    /\ attempts > 0
    /\ window = "destroyed"
    /\ mainloop = "ended"

\* C7: a successful analysis of an input whose output file is already there
\* from a successful analysis of the same input (same name, same signal)
\* leaves the directory as it was, file content included, and prints only
\* the completion message.
C7_RerunLeavesSameFile ==
    [][(/\ SuccessStep
        /\ OutputFile(last'.sel) \in DOMAIN files
        /\ files[OutputFile(last'.sel)].whole
        /\ files[OutputFile(last'.sel)].title = basename(last'.sel)
        /\ files[OutputFile(last'.sel)].audio = last'.decode) =>
          /\ files' = files
          /\ console' = Append(console, Complete)]_vars

\* C8: within one launch at most one analysis succeeds: once the completion
\* message is printed the window is destroyed, the event loop has ended, no
\* handler of this launch runs again and no further file is written.
C8_OneSuccessPerLaunch ==
    /\ [](/\ Count(console, Complete) <= 1
          /\ Count(console, Complete) = 1 =>
                /\ window = "destroyed"
                /\ mainloop = "ended"
                /\ ~Clickable(LOAD_BUTTON))
    /\ [][Count(console, Complete) = 1 =>
             /\ launches' = launches + 1
             /\ files' = files]_vars

C8_Witness ==
    /\ console = <<ErrorAnalyzing, Complete>>
    /\ window = "destroyed"
    /\ launches = 2

\* C10 as stated: an open window holds the two buttons and nothing else.
C10_NoCanvasWhenIdle ==
    window = "open" => children = <<LOAD_BUTTON, EXIT_BUTTON>>

\* C10 as amended: a cancelled or decode-failed attempt, and an analysis
\* attempt that fails before the canvas is packed, leave the window's
\* contents unchanged; an analysis attempt that fails after the canvas is
\* packed (in the label fixes or in saving the figure) leaves that canvas
\* packed below the two buttons.
C10_CanvasStaysAfterLateFailure ==
    /\ [](window = "open" =>
            /\ BothButtons
            /\ \A i \in 3..Len(children) : children[i] = CANVAS
            /\ Len(children) - 2 <= Count(console, ErrorAnalyzing))
    /\ [][/\ (CancelStep \/ DecodeFailStep) => children' = children
          /\ (AnalysisFailStep /\ last'.fail \in {"subplots", "render"}) =>
                children' = children
          /\ (AnalysisFailStep
                /\ last'.fail \in {"labels", "savefig", "savefig_partial"}) =>
                children' = Append(children, CANVAS)]_vars

C10_Witness ==
    /\ IdleNow
    /\ last.op = "load"
    /\ last.fail = "savefig"
    /\ children = <<LOAD_BUTTON, EXIT_BUTTON, CANVAS>>

\* C9: the output name is the input's base name (what follows the last
\* separator) with its extension (its last dot and what follows, when
\* something other than a dot precedes that dot) replaced by ".png", or with
\* ".png" appended when it has no extension; it holds no separator, so it is
\* resolved against the working directory.
IsBaseOf(base, p) ==
    \E i \in 0..Len(p) :
        /\ i = 0 \/ p[i] = SEP
        /\ \A j \in (i+1)..Len(p) : p[j] # SEP
        /\ base = SubSeq(p, i + 1, Len(p))

HasExtension(base) ==
    \E k \in 1..Len(base) :
        base[k] = EXTSEP /\ \E m \in 1..(k-1) : base[m] # EXTSEP

IsStemOf(stem, base) ==
    \E j \in 0..Len(base) :
        /\ stem = SubSeq(base, 1, j)
        /\ IF HasExtension(base)
           THEN /\ j < Len(base)
                /\ base[j+1] = EXTSEP
                /\ \A k \in (j+2)..Len(base) : base[k] # EXTSEP
           ELSE j = Len(base)

C9_OutputNameFromBaseName ==
    output_file # <<>> =>
        /\ \A i \in 1..Len(output_file) : output_file[i] # SEP
        /\ \E base \in {SubSeq(file_path, i, Len(file_path)) :
                          i \in 1..(Len(file_path) + 1)} :
              /\ IsBaseOf(base, file_path)
              /\ \E stem \in {SubSeq(base, 1, j) : j \in 0..Len(base)} :
                    /\ IsStemOf(stem, base)
                    /\ output_file = stem \o PNG

C9_Witness ==
    /\ file_path = <<"a", "/", "a", ".", "a">>
    /\ output_file = <<"a", ".", "p", "n", "g">>

\* C3 as stated: every bin, the 0 Hz bin included, is selected by exactly
\* one of the three masks.
Selected == Cardinality({b \in {"bass", "mid", "treble"} : band[b]})

C3_EveryBinInOneBand == band.computed => Selected = 1

\* C3 as amended: every bin above 0 Hz is selected by exactly one of the
\* three masks, with bass = (0,150), mid = [150,2000), treble = [2000,inf);
\* the 0 Hz bin is selected by none.
C3_PositiveBinsInOneBand ==
    band.computed =>
        /\ Selected = (IF bin = 0 THEN 0 ELSE 1)
        /\ band.bass <=> (bin > 0 /\ bin * sr < 150 * 2048)
        /\ band.mid <=> (bin * sr >= 150 * 2048 /\ bin * sr < 2000 * 2048)
        /\ band.treble <=> (bin * sr >= 2000 * 2048)

C3_Witness ==
    /\ band.computed
    /\ sr = 8000
    /\ bin = 512
    /\ band.treble
    /\ ~band.mid

=============================================================================
